---- MODULE Spec2Model ----
(***************************************************************************)
(* Task Manager mini-project (exercise 06, solution): the Task record and  *)
(* its pipe-delimited codec (task.rs), the TaskManager store (manager.rs), *)
(* the FileStorage adapter (storage.rs) and the command loop (main.rs).    *)
(*                                                                         *)
(* Text is a sequence of one-character strings, so that splitting on '|',  *)
(* splitting into lines, trimming and lower-casing are computed as the     *)
(* code computes them.                                                     *)
(***************************************************************************)
EXTENDS Integers, Sequences, FiniteSets, TLC

(***************************************************************************)
(* Bounds of the model.                                                    *)
(***************************************************************************)
\* u32 is modelled as an unsigned integer of IdBits bits (TLC's integers
\* cannot hold 2^32): U32Max stands for u32::MAX = 4294967295.
IdBits == 4
\* add is offered while the store holds fewer than MaxTasks records.
MaxTasks == 2
\* add is offered while fewer than MaxAdds records were added in the session.
MaxAdds == 3
\* the file system refuses at most MaxIoFaults reads or writes in a run.
MaxIoFaults == 1
\* a file handed to load() on its own holds at most MaxLines lines.
MaxLines == 3
\* a standard input that ends holds at most MaxInput lines.
MaxInput == 2

U32Max == 2^IdBits - 1

(***************************************************************************)
(* Option and Result                                                       *)
(***************************************************************************)
None == <<>>
Some(v) == <<v>>
IsSome(o) == Len(o) = 1
Unwrap(o) == o[1]

Ok(v) == [ok |-> TRUE, err |-> "", val |-> v]
Err(kind, payload) == [ok |-> FALSE, err |-> kind, val |-> payload]

(***************************************************************************)
(* Text helpers (the std functions the code calls)                         *)
(***************************************************************************)
UpperChars == <<"A","B","C","D","E","F","G","H","I","J","K","L","M",
                "N","O","P","Q","R","S","T","U","V","W","X","Y","Z">>
LowerChars == <<"a","b","c","d","e","f","g","h","i","j","k","l","m",
                "n","o","p","q","r","s","t","u","v","w","x","y","z">>
Digits == <<"0","1","2","3","4","5","6","7","8","9">>
WhiteSpace == {" ", "\t", "\n", "\r"}

LowerChar(c) ==
    IF \E i \in 1..26 : UpperChars[i] = c
    THEN LowerChars[CHOOSE i \in 1..26 : UpperChars[i] = c]
    ELSE c

\* str::to_lowercase
ToLowercase(s) == [i \in 1..Len(s) |-> LowerChar(s[i])]

\* str::trim().is_empty()
TrimIsEmpty(s) == \A i \in 1..Len(s) : s[i] \in WhiteSpace

\* str::split(sep): the pieces between the separators; n separators give
\* n + 1 pieces, the empty text gives one empty piece.
Split(s, sep) ==
    LET at == {i \in 1..Len(s) : s[i] = sep}
        n  == Cardinality(at)
        \* where the k-th separator is; 0 and Len(s) + 1 close the text
        Pos(k) == IF k = 0 THEN 0
                  ELSE IF k = n + 1 THEN Len(s) + 1
                  ELSE CHOOSE i \in at : Cardinality({j \in at : j <= i}) = k
    IN  [k \in 1..(n + 1) |-> SubSeq(s, Pos(k - 1) + 1, Pos(k) - 1)]

\* [String]::join(sep)
RECURSIVE Join(_, _)
Join(parts, sep) ==
    IF parts = <<>> THEN <<>>
    ELSE IF Len(parts) = 1 THEN parts[1]
    ELSE parts[1] \o sep \o Join(Tail(parts), sep)

\* str::lines(): split at "\n", a "\r" right before the "\n" belongs to the
\* line ending, and an empty last line is not a line.
StripCr(piece, terminated) ==
    IF terminated /\ Len(piece) > 0 /\ piece[Len(piece)] = "\r"
    THEN SubSeq(piece, 1, Len(piece) - 1)
    ELSE piece

Lines(content) ==
    LET pieces == Split(content, "\n")
        n      == Len(pieces)
        kept   == IF pieces[n] = <<>> THEN n - 1 ELSE n
    IN  [i \in 1..kept |-> StripCr(pieces[i], i < n)]

\* u32's Display: decimal digits, no sign, no padding.
RECURSIVE U32ToString(_)
U32ToString(n) ==
    IF n < 10 THEN <<Digits[n + 1]>>
    ELSE U32ToString(n \div 10) \o <<Digits[(n % 10) + 1]>>

IsDigit(c) == \E d \in 1..10 : Digits[d] = c
DigitVal(c) == (CHOOSE d \in 1..10 : Digits[d] = c) - 1

\* checked accumulation of the digits; -1 when the value leaves u32
RECURSIVE ParseDigits(_, _, _)
ParseDigits(s, i, acc) ==
    IF acc > U32Max THEN -1
    ELSE IF i > Len(s) THEN acc
    ELSE ParseDigits(s, i + 1, acc * 10 + DigitVal(s[i]))

\* mutant: the value is taken modulo 2^32 where it leaves u32
M_ParseU32Wrapping(s) ==
    LET body == IF Len(s) > 0 /\ s[1] = "+" THEN Tail(s) ELSE s
    IN  IF body = <<>> \/ \E i \in 1..Len(body) : ~IsDigit(body[i])
        THEN Err("ParseIntError", s)
        ELSE LET v == ParseDigits(body, 1, 0)
             IN  IF v < 0 THEN Ok(0) ELSE Ok(v)

\* str::parse::<u32>(): an optional "+", then at least one digit, digits
\* only, value within u32. Ok(n) or Err.
ParseU32(s) ==
    LET body == IF Len(s) > 0 /\ s[1] = "+" THEN Tail(s) ELSE s
    IN  IF body = <<>> \/ \E i \in 1..Len(body) : ~IsDigit(body[i])
        THEN Err("ParseIntError", s)
        ELSE LET v == ParseDigits(body, 1, 0)
             IN  IF v < 0 THEN Err("ParseIntError", s) ELSE Ok(v)

(***************************************************************************)
(* task.rs: Priority, Status                                               *)
(***************************************************************************)
Priorities == {"Low", "Medium", "High", "Critical"}
Statuses == {"Pending", "InProgress", "Completed"}

\* impl Display for Priority
PriorityToString(p) ==
    CASE p = "Low"      -> <<"L","O","W">>
      [] p = "Medium"   -> <<"M","E","D","I","U","M">>
      [] p = "High"     -> <<"H","I","G","H">>
      [] p = "Critical" -> <<"C","R","I","T","I","C","A","L">>

\* mutant: the text is compared as it is given, not in lower case
M_PriorityFromStrExact(s) ==
    CASE s = <<"l","o","w">>                         -> Ok("Low")
      [] s = <<"m","e","d","i","u","m">>             -> Ok("Medium")
      [] s = <<"h","i","g","h">>                     -> Ok("High")
      [] s = <<"c","r","i","t","i","c","a","l">>     -> Ok("Critical")
      [] OTHER                                       -> Err("InvalidPriority", s)

\* impl FromStr for Priority
PriorityFromStr(s) ==
    LET l == ToLowercase(s)
    IN  CASE l = <<"l","o","w">>                         -> Ok("Low")
          [] l = <<"m","e","d","i","u","m">>             -> Ok("Medium")
          [] l = <<"h","i","g","h">>                     -> Ok("High")
          [] l = <<"c","r","i","t","i","c","a","l">>     -> Ok("Critical")
          [] OTHER                                       -> Err("InvalidPriority", s)

\* impl Display for Status
StatusToString(st) ==
    CASE st = "Pending"    -> <<"P","E","N","D","I","N","G">>
      [] st = "InProgress" -> <<"I","N","_","P","R","O","G","R","E","S","S">>
      [] st = "Completed"  -> <<"C","O","M","P","L","E","T","E","D">>

\* mutant: the error carries the text in lower case
M_StatusFromStrLowered(s) ==
    LET l == ToLowercase(s)
    IN  CASE l = <<"p","e","n","d","i","n","g">>                      -> Ok("Pending")
          [] l = <<"i","n","_","p","r","o","g","r","e","s","s">>      -> Ok("InProgress")
          [] l = <<"i","n","p","r","o","g","r","e","s","s">>          -> Ok("InProgress")
          [] l = <<"c","o","m","p","l","e","t","e","d">>              -> Ok("Completed")
          [] l = <<"c","o","m","p","l","e","t","e">>                  -> Ok("Completed")
          [] OTHER                                                    -> Err("InvalidStatus", l)

\* mutant: the words are matched as given, in lower case only
M_StatusFromStrExact(s) ==
    CASE s = <<"p","e","n","d","i","n","g">>                      -> Ok("Pending")
      [] s = <<"i","n","_","p","r","o","g","r","e","s","s">>      -> Ok("InProgress")
      [] s = <<"i","n","p","r","o","g","r","e","s","s">>          -> Ok("InProgress")
      [] s = <<"c","o","m","p","l","e","t","e","d">>              -> Ok("Completed")
      [] s = <<"c","o","m","p","l","e","t","e">>                  -> Ok("Completed")
      [] OTHER                                                    -> Err("InvalidStatus", s)

\* impl FromStr for Status
StatusFromStr(s) ==
    LET l == ToLowercase(s)
    IN  CASE l = <<"p","e","n","d","i","n","g">>                      -> Ok("Pending")
          [] l = <<"i","n","_","p","r","o","g","r","e","s","s">>      -> Ok("InProgress")
          [] l = <<"i","n","p","r","o","g","r","e","s","s">>          -> Ok("InProgress")
          [] l = <<"c","o","m","p","l","e","t","e","d">>              -> Ok("Completed")
          [] l = <<"c","o","m","p","l","e","t","e">>                  -> Ok("Completed")
          [] OTHER                                                    -> Err("InvalidStatus", s)

(***************************************************************************)
(* task.rs: Task                                                           *)
(***************************************************************************)
\* Task::current_timestamp: the fixed text "2024-01-15 10:00:00"
CurrentTimestamp ==
    <<"2","0","2","4","-","0","1","-","1","5"," ","1","0",":","0","0",":","0","0">>

\* mutant: only the empty title is refused, white space is a title
M_TaskNewEmptyOnly(id, title, priority) ==
    IF title = <<>>
    THEN Err("ValidationError", "Title cannot be empty")
    ELSE Ok([id |-> id, title |-> title, description |-> None,
             priority |-> priority, status |-> "Pending", category |-> None,
             created_at |-> CurrentTimestamp])

\* Task::new
TaskNew(id, title, priority) ==
    IF TrimIsEmpty(title)
    THEN Err("ValidationError", "Title cannot be empty")
    ELSE Ok([id |-> id, title |-> title, description |-> None,
             priority |-> priority, status |-> "Pending", category |-> None,
             created_at |-> CurrentTimestamp])

WithDescription(t, desc) == [t EXCEPT !.description = Some(desc)]
WithCategory(t, cat) == [t EXCEPT !.category = Some(cat)]
\* mutant: set_status also numbers the record anew
M_SetStatusRenumbers(t, st) == [t EXCEPT !.status = st, !.id = 0]

SetStatus(t, st) == [t EXCEPT !.status = st]
SetPriority(t, p) == [t EXCEPT !.priority = p]

NoneText == <<"N","o","n","e">>
Bar == "|"

\* mutant: the category is written before the description
M_SerializeSwapped(t) ==
    LET desc == IF IsSome(t.description) THEN Unwrap(t.description) ELSE NoneText
        cat  == IF IsSome(t.category) THEN Unwrap(t.category) ELSE NoneText
    IN  Join(<<U32ToString(t.id), t.title, cat, PriorityToString(t.priority),
               StatusToString(t.status), desc, t.created_at>>, <<Bar>>)

\* impl Serializable for Task: serialize
Serialize(t) ==
    LET desc == IF IsSome(t.description) THEN Unwrap(t.description) ELSE NoneText
        cat  == IF IsSome(t.category) THEN Unwrap(t.category) ELSE NoneText
    IN  Join(<<U32ToString(t.id), t.title, desc, PriorityToString(t.priority),
               StatusToString(t.status), cat, t.created_at>>, <<Bar>>)

\* mutant: the status field is checked before the id and the priority
M_DeserializeStatusFirst(data) ==
    LET parts == Split(data, Bar)
    IN  IF Len(parts) # 7
        THEN Err("SerializationError", Len(parts))
        ELSE
        LET id       == ParseU32(parts[1])
            priority == PriorityFromStr(parts[4])
            status   == StatusFromStr(parts[5])
        IN  IF ~status.ok THEN status
            ELSE IF ~id.ok THEN Err("ParseError", "Invalid ID")
            ELSE IF ~priority.ok THEN priority
            ELSE Ok([id |-> id.val,
                     title |-> parts[2],
                     description |-> IF parts[3] = NoneText THEN None ELSE Some(parts[3]),
                     priority |-> priority.val,
                     status |-> status.val,
                     category |-> IF parts[6] = NoneText THEN None ELSE Some(parts[6]),
                     created_at |-> parts[7]])

\* impl Serializable for Task: deserialize
Deserialize(data) ==
    LET parts == Split(data, Bar)
    IN  IF Len(parts) # 7
        THEN Err("SerializationError", Len(parts))
        ELSE
        LET id       == ParseU32(parts[1])
            priority == PriorityFromStr(parts[4])
            status   == StatusFromStr(parts[5])
        IN  IF ~id.ok THEN Err("ParseError", "Invalid ID")
            ELSE IF ~priority.ok THEN priority
            ELSE IF ~status.ok THEN status
            ELSE Ok([id |-> id.val,
                     title |-> parts[2],
                     description |-> IF parts[3] = NoneText THEN None ELSE Some(parts[3]),
                     priority |-> priority.val,
                     status |-> status.val,
                     category |-> IF parts[6] = NoneText THEN None ELSE Some(parts[6]),
                     created_at |-> parts[7]])

(***************************************************************************)
(* State of the program (main.rs)                                          *)
(***************************************************************************)
VARIABLES
    pc,               \* "start" (before the startup load), "loop", "done", "panicked";
                      \* "codec", "store", "load", "inventory" where a part runs alone
    tasks,            \* TaskManager.tasks
    next_id,          \* TaskManager.next_id
    file,             \* tasks.txt: None when it does not exist, Some(content)
    io_budget,        \* how many file operations the file system may still refuse
    adds,             \* how many records the session has added
    retired,          \* history: the ids of the records removed so far
    last,             \* the last step: the command, what the handler returned,
                      \* what the store call returned, what became of the save
    codec,            \* the codec on its own: a Task built, encoded, decoded
    stdin,            \* the lines of the standard input not read yet, each
                      \* as its words: None for a terminal that never ends
    inventory         \* exercise 03: the Vec<Item> of the inventory

program == <<pc, tasks, next_id, file, io_budget, adds, retired, last, stdin>>
vars == <<program, codec, inventory>>

\* io::stdin().read_line: the line read is the first of those left; at the
\* end of the input it reads nothing (Ok(0), the buffer left empty)
NextLine(parts) ==
    IF stdin = None THEN TRUE
    ELSE IF Unwrap(stdin) = <<>> THEN FALSE
    ELSE Head(Unwrap(stdin)) = parts
\* the line read is empty
NoLine ==
    IF stdin = None THEN TRUE
    ELSE IF Unwrap(stdin) = <<>> THEN TRUE
    ELSE Head(Unwrap(stdin)) = <<>>
Rest(in) ==
    IF in = None THEN in
    ELSE IF Unwrap(in) = <<>> THEN in
    ELSE Some(Tail(Unwrap(in)))

(***************************************************************************)
(* manager.rs: TaskManager. A manager value is [tasks, next_id]; a call    *)
(* gives the manager after it, the value returned and whether its addition *)
(* overflowed.                                                             *)
(***************************************************************************)
Manager(ts, n) == [tasks |-> ts, next_id |-> n]

\* TaskManager::new
ManagerNew == Manager(<<>>, 1)

\* u32 `+` leaves u32: the build either panics there ("attempt to add with
\* overflow", overflow checks on) or wraps modulo 2^32 (overflow checks off)
Overflows(a, b) == a + b > U32Max
U32Add(a, b) == (a + b) % (U32Max + 1)

\* mutant: the task is put first
M_AddTaskFirst(m, task) ==
    [m     |-> Manager(<<task>> \o m.tasks, U32Add(m.next_id, 1)),
     ret      |-> m.next_id,
     overflow |-> Overflows(m.next_id, 1)]

\* TaskManager::add_task
AddTask(m, task) ==
    [m     |-> Manager(Append(m.tasks, task), U32Add(m.next_id, 1)),
     ret      |-> m.next_id,
     overflow |-> Overflows(m.next_id, 1)]

\* Vec::remove(pos)
VecRemove(ts, pos) == SubSeq(ts, 1, pos - 1) \o SubSeq(ts, pos + 1, Len(ts))

\* Iterator::position(|_| true): the first index, 0 when there is none
PositionAny(ts) == IF ts = <<>> THEN 0 ELSE 1

\* TaskManager::get_task / get_task_mut: the index of the record found
GetTask(m, id) == PositionAny(m.tasks)

\* TaskManager::remove_task
RemoveTask(m, id) ==
    LET pos == PositionAny(m.tasks)
    IN  IF pos = 0
        THEN [m |-> m, res |-> Err("NotFound", id)]
        ELSE [m   |-> Manager(VecRemove(m.tasks, pos), m.next_id),
              res |-> Ok(m.tasks[pos])]

\* mutant: the given tasks are put after the ones held
M_LoadTasksMerges(m, ts) == Manager(m.tasks \o ts, 1)

\* TaskManager::load_tasks
LoadTasks(m, ts) == Manager(ts, 1)

\* mutant: the predicate ignores the id, as the placeholder |_| true does
M_PositionAny(ts, id) == PositionAny(ts)

\* Iterator::position(|t| t.id == id): the first index, 0 when there is none
PositionById(ts, id) ==
    IF \E i \in 1..Len(ts) : ts[i].id = id
    THEN CHOOSE i \in 1..Len(ts) :
            ts[i].id = id /\ \A j \in 1..(i - 1) : ts[j].id # id
    ELSE 0

\* TaskManager::get_task_by_id / get_task_by_id_mut: the index of the record
GetTaskById(m, id) == PositionById(m.tasks, id)

\* TaskManager::remove_task_by_id
RemoveTaskById(m, id) ==
    LET pos == PositionById(m.tasks, id)
    IN  IF pos = 0
        THEN [m |-> m, res |-> Err("NotFound", id)]
        ELSE [m   |-> Manager(VecRemove(m.tasks, pos), m.next_id),
              res |-> Ok(m.tasks[pos])]

\* Iterator::max().unwrap_or(0) over the ids
MaxId(ts) ==
    IF ts = <<>> THEN 0
    ELSE CHOOSE x \in {ts[i].id : i \in 1..Len(ts)} :
            \A i \in 1..Len(ts) : ts[i].id <= x

\* TaskManager::load_tasks_with_id_update
LoadTasksWithIdUpdate(m, ts) ==
    [m        |-> Manager(ts, U32Add(MaxId(ts), 1)),
     overflow |-> Overflows(MaxId(ts), 1)]

\* TaskManager::list_tasks
ListTasks(m) == m.tasks

\* TaskManager::count
Count(m) == Len(m.tasks)

(***************************************************************************)
(* storage.rs: FileStorage                                                 *)
(***************************************************************************)
NewLine == "\n"

\* mutant: the lines are joined by a space
M_SaveContentSpace(items) ==
    Join([i \in 1..Len(items) |-> Serialize(items[i])], <<" ">>)

\* FileStorage::save: the content written to the file
SaveContent(items) ==
    Join([i \in 1..Len(items) |-> Serialize(items[i])], <<NewLine>>)

\* mutant: a line that fails to decode is left out, the load goes on
RECURSIVE M_LoadLinesBestEffort(_, _, _)
M_LoadLinesBestEffort(lines, i, acc) ==
    IF i > Len(lines) THEN Ok(acc)
    ELSE IF TrimIsEmpty(lines[i]) THEN M_LoadLinesBestEffort(lines, i + 1, acc)
    ELSE LET t == Deserialize(lines[i])
         IN  IF ~t.ok THEN M_LoadLinesBestEffort(lines, i + 1, acc)
             ELSE M_LoadLinesBestEffort(lines, i + 1, Append(acc, t.val))

\* the loop of FileStorage::load over the lines: the first error ends it
RECURSIVE LoadLines(_, _, _)
LoadLines(lines, i, acc) ==
    IF i > Len(lines) THEN Ok(acc)
    ELSE IF TrimIsEmpty(lines[i]) THEN LoadLines(lines, i + 1, acc)
    ELSE LET t == Deserialize(lines[i])
         IN  IF ~t.ok THEN t ELSE LoadLines(lines, i + 1, Append(acc, t.val))

\* mutant: no check that the file exists, read_to_string fails on a missing file
M_StorageLoadNoExists(f, readable) ==
    IF ~IsSome(f) \/ ~readable THEN Err("IoError", "read")
    ELSE LoadLines(Lines(Unwrap(f)), 1, <<>>)

\* mutant: load() gives the records of the lines that decode
M_StorageLoadKeepsDecoded(f, readable) ==
    IF ~IsSome(f) THEN Ok(<<>>)
    ELSE IF ~readable THEN Err("IoError", "read")
    ELSE M_LoadLinesBestEffort(Lines(Unwrap(f)), 1, <<>>)

\* FileStorage::load; readable is whether fs::read_to_string succeeds
StorageLoad(f, readable) ==
    IF ~IsSome(f) THEN Ok(<<>>)
    ELSE IF ~readable THEN Err("IoError", "read")
    ELSE LoadLines(Lines(Unwrap(f)), 1, <<>>)

(***************************************************************************)
(* main.rs: the words of the command language                              *)
(***************************************************************************)
W_add      == <<"a","d","d">>
W_list     == <<"l","i","s","t">>
W_show     == <<"s","h","o","w">>
W_update   == <<"u","p","d","a","t","e">>
W_complete == <<"c","o","m","p","l","e","t","e">>
W_delete   == <<"d","e","l","e","t","e">>
W_stats    == <<"s","t","a","t","s">>
W_help     == <<"h","e","l","p">>
W_quit     == <<"q","u","i","t">>
W_exit     == <<"e","x","i","t">>
W_status   == <<"s","t","a","t","u","s">>
W_priority == <<"p","r","i","o","r","i","t","y">>
W_title    == <<"t","i","t","l","e">>
W_category == <<"c","a","t","e","g","o","r","y">>

\* &parts[1..]
Args(parts) == Tail(parts)

\* what a handler leaves: the manager, the Result it returns, the value the
\* store call (or the printout) produced, and whether an addition overflowed
Outcome(m, res, ret) == [m |-> m, res |-> res, ret |-> ret, overflow |-> FALSE]

\* handle_add_command
HandleAddCommand(m, args) ==
    IF Len(args) < 2
    THEN Outcome(m, Err("ValidationError", "Usage: add"), None)
    ELSE
    LET title    == args[1]
        priority == PriorityFromStr(args[2])
        category == IF Len(args) >= 3 THEN Some(args[3]) ELSE None
        id       == Count(m) + 1
    IN  IF ~priority.ok THEN Outcome(m, priority, None)
        ELSE
        LET new == TaskNew(id, title, priority.val)
        IN  IF ~new.ok THEN Outcome(m, new, None)
            ELSE
            LET task  == IF IsSome(category)
                         THEN WithCategory(new.val, Unwrap(category))
                         ELSE new.val
                added == AddTask(m, task)
            IN  [m |-> added.m, res |-> Ok(<<>>), ret |-> Some(added.ret),
                 overflow |-> added.overflow]

\* str::strip_prefix
HasPrefix(s, prefix) ==
    Len(s) >= Len(prefix) /\ SubSeq(s, 1, Len(prefix)) = prefix
AfterPrefix(s, prefix) == SubSeq(s, Len(prefix) + 1, Len(s))

P_status   == W_status \o <<"=">>
P_priority == W_priority \o <<"=">>
P_category == W_category \o <<"=">>

\* the filters of handle_list_command after the arguments up to the i-th:
\* a later argument replaces an earlier one, a value that does not parse
\* clears the filter
RECURSIVE ListFilters(_, _)
ListFilters(args, i) ==
    IF i = 0 THEN [status |-> None, priority |-> None, category |-> None]
    ELSE
    LET f   == ListFilters(args, i - 1)
        arg == args[i]
    IN  IF HasPrefix(arg, P_status)
        THEN LET v == StatusFromStr(AfterPrefix(arg, P_status))
             IN  [f EXCEPT !.status = IF v.ok THEN Some(v.val) ELSE None]
        ELSE IF HasPrefix(arg, P_priority)
        THEN LET v == PriorityFromStr(AfterPrefix(arg, P_priority))
             IN  [f EXCEPT !.priority = IF v.ok THEN Some(v.val) ELSE None]
        ELSE IF HasPrefix(arg, P_category)
        THEN [f EXCEPT !.category = Some(AfterPrefix(arg, P_category))]
        ELSE f

\* Iterator::filter(..).collect(): the elements that pass, in order
RECURSIVE FilterSeq(_, _, _)
FilterSeq(ts, f, i) ==
    IF i > Len(ts) THEN <<>>
    ELSE LET t    == ts[i]
             pass == /\ (IsSome(f.status) => t.status = Unwrap(f.status))
                     /\ (IsSome(f.priority) => t.priority = Unwrap(f.priority))
                     /\ (IsSome(f.category) => t.category = f.category)
         IN  (IF pass THEN <<t>> ELSE <<>>) \o FilterSeq(ts, f, i + 1)

\* handle_list_command: the tasks it prints
HandleListCommand(m, args) ==
    Outcome(m, Ok(<<>>),
            Some(FilterSeq(ListTasks(m), ListFilters(args, Len(args)), 1)))

\* handle_show_command
HandleShowCommand(m, args) ==
    IF args = <<>>
    THEN Outcome(m, Err("ValidationError", "Usage: show"), None)
    ELSE
    LET id == ParseU32(args[1])
    IN  IF ~id.ok THEN Outcome(m, Err("ParseError", "Invalid task ID"), None)
        ELSE LET pos == GetTaskById(m, id.val)
             IN  IF pos = 0 THEN Outcome(m, Err("NotFound", id.val), None)
                 ELSE Outcome(m, Ok(<<>>), Some(m.tasks[pos]))

\* the manager with the record at pos replaced (the effect of writing
\* through the &mut Task that get_task_by_id_mut returns)
WithTaskAt(m, pos, t) == Manager([m.tasks EXCEPT ![pos] = t], m.next_id)

\* handle_update_command
HandleUpdateCommand(m, args) ==
    IF Len(args) < 3
    THEN Outcome(m, Err("ValidationError", "Usage: update"), None)
    ELSE
    LET id == ParseU32(args[1])
    IN  IF ~id.ok THEN Outcome(m, Err("ParseError", "Invalid task ID"), None)
        ELSE
        LET pos == GetTaskById(m, id.val)
        IN  IF pos = 0 THEN Outcome(m, Err("NotFound", id.val), None)
            ELSE IF args[2] = W_status
            THEN LET st == StatusFromStr(args[3])
                 IN  IF ~st.ok THEN Outcome(m, st, None)
                     ELSE Outcome(WithTaskAt(m, pos, SetStatus(m.tasks[pos], st.val)),
                                  Ok(<<>>), None)
            ELSE IF args[2] = W_priority
            THEN LET pr == PriorityFromStr(args[3])
                 IN  IF ~pr.ok THEN Outcome(m, pr, None)
                     ELSE Outcome(WithTaskAt(m, pos, SetPriority(m.tasks[pos], pr.val)),
                                  Ok(<<>>), None)
            ELSE IF args[2] = W_title
            THEN Outcome(WithTaskAt(m, pos,
                            [m.tasks[pos] EXCEPT
                                !.title = Join(SubSeq(args, 3, Len(args)), <<" ">>)]),
                         Ok(<<>>), None)
            ELSE Outcome(m, Err("ValidationError", "Unknown field"), None)

\* handle_complete_command
HandleCompleteCommand(m, args) ==
    IF args = <<>>
    THEN Outcome(m, Err("ValidationError", "Usage: complete"), None)
    ELSE
    LET id == ParseU32(args[1])
    IN  IF ~id.ok THEN Outcome(m, Err("ParseError", "Invalid task ID"), None)
        ELSE
        LET pos == GetTaskById(m, id.val)
        IN  IF pos = 0 THEN Outcome(m, Err("NotFound", id.val), None)
            ELSE Outcome(WithTaskAt(m, pos, SetStatus(m.tasks[pos], "Completed")),
                         Ok(<<>>), None)

\* mutant: a delete of an id the store does not hold drops the first record
\* and reports NotFound
M_HandleDeleteCommandDropsFirst(m, args) ==
    IF args = <<>>
    THEN Outcome(m, Err("ValidationError", "Usage: delete"), None)
    ELSE
    LET id == ParseU32(args[1])
    IN  IF ~id.ok THEN Outcome(m, Err("ParseError", "Invalid task ID"), None)
        ELSE
        LET removed == RemoveTaskById(m, id.val)
        IN  IF ~removed.res.ok
            THEN Outcome(RemoveTask(m, id.val).m, removed.res, None)
            ELSE Outcome(removed.m, Ok(<<>>), Some(removed.res.val))

\* handle_delete_command
HandleDeleteCommand(m, args) ==
    IF args = <<>>
    THEN Outcome(m, Err("ValidationError", "Usage: delete"), None)
    ELSE
    LET id == ParseU32(args[1])
    IN  IF ~id.ok THEN Outcome(m, Err("ParseError", "Invalid task ID"), None)
        ELSE
        LET removed == RemoveTaskById(m, id.val)
        IN  IF ~removed.res.ok THEN Outcome(m, removed.res, None)
            ELSE Outcome(removed.m, Ok(<<>>), Some(removed.res.val))

\* handle_stats_command: the numbers it prints
CountStatus(ts, st) == Cardinality({i \in 1..Len(ts) : ts[i].status = st})
HandleStatsCommand(m) ==
    LET ts == ListTasks(m)
    IN  IF ts = <<>> THEN Outcome(m, Ok(<<>>), None)
        ELSE Outcome(m, Ok(<<>>),
                     Some(<<Len(ts), CountStatus(ts, "Pending"),
                            CountStatus(ts, "InProgress"),
                            CountStatus(ts, "Completed")>>))

(***************************************************************************)
(* The inputs: what tasks.txt holds at startup and the command lines typed *)
(***************************************************************************)
T_a    == <<"a">>
T_b    == <<"b">>
T_c    == <<"c">>
T_x    == <<"x">>
T_y    == <<"y">>
T_ab   == <<"a", "|", "b">>
T_low  == <<"l","o","w">>
T_HIGH == <<"H","I","G","H">>
T_critical  == <<"c","r","i","t","i","c","a","l">>
T_urgent    == <<"u","r","g","e","n","t">>
T_progress  == <<"i","n","_","p","r","o","g","r","e","s","s">>
T_done      == <<"d","o","n","e">>
\* a record of the file
FileTask(id, title) ==
    [id |-> id, title |-> title, description |-> None, priority |-> "Low",
     status |-> "Pending", category |-> None, created_at |-> CurrentTimestamp]

L_short == <<"1","|","a","|","N","o","n","e","|","L","O","W">>
L_badid == <<"x">> \o Tail(Serialize(FileTask(1, T_a)))
L_big == U32ToString(U32Max + 1) \o Tail(Serialize(FileTask(1, T_a)))

CrLf == <<"\r", NewLine>>

\* no file; an empty file; two records and a blank line between them, the
\* lines ended by "\r\n", the second record with an empty title and a "\r"
\* more; the largest id but one, with a description; the largest id; a line
\* of four fields after a good line; an id that is no number; an id beyond u32
InitFiles ==
    { None,
      Some(<<>>),
      Some(Serialize(FileTask(1, T_a)) \o CrLf \o CrLf
           \o Serialize(FileTask(2, <<>>)) \o <<"\r">> \o CrLf),
      Some(Serialize(WithDescription(FileTask(U32Max - 1, T_a), T_b))),
      Some(Serialize(FileTask(U32Max, T_a))),
      Some(Serialize(FileTask(1, T_a)) \o <<NewLine>> \o L_short),
      Some(L_badid),
      Some(L_big) }

AddLines ==
    { <<W_add, T_a, T_low>>,
      <<W_add, T_ab, T_HIGH, T_c>>,
      <<W_add, T_b, T_low, NoneText>>,
      <<W_add, T_a>>,
      <<W_add, T_a, T_urgent>> }

ListLines ==
    { <<W_list>>,
      <<W_list, P_status \o T_done, P_priority \o T_low>> }

ShowLines == {<<W_show>>, <<W_show, T_x>>, <<W_show, U32ToString(1)>>}

UpdateLines ==
    { <<W_update, U32ToString(1), W_status>>,
      <<W_update, T_x, W_status, T_done>>,
      <<W_update, U32ToString(1), W_status, T_done>>,
      <<W_update, U32ToString(1), W_status, T_progress>>,
      <<W_update, U32ToString(1), W_priority, T_urgent>>,
      <<W_update, U32ToString(1), W_priority, T_critical>>,
      <<W_update, U32ToString(1), W_title, T_x, T_y>>,
      <<W_update, U32ToString(1), W_category, T_c>> }

CompleteLines ==
    {<<W_complete>>, <<W_complete, T_x>>, <<W_complete, U32ToString(2)>>}

DeleteLines ==
    {<<W_delete>>, <<W_delete, T_x>>,
     <<W_delete, U32ToString(1)>>, <<W_delete, U32ToString(2)>>}

OtherLines == {<<W_stats>>, <<W_help>>, <<W_quit>>, <<W_exit>>, <<T_x>>}

InputLines ==
    AddLines \cup ListLines \cup ShowLines \cup UpdateLines \cup CompleteLines
        \cup DeleteLines \cup OtherLines

(***************************************************************************)
(* main.rs: main                                                           *)
(***************************************************************************)
\* what a step did: the line read, what the handler returned, what the
\* store call returned, what became of the save, and what the save wrote
\* over: "absent" (no file), "synced" (the file the records in memory were
\* last saved to), else "good" (a file that load() accepts) or "bad" (a
\* file that load() rejects)
Report(parts, res, ret, save) ==
    [cmd |-> parts, res |-> res, ret |-> ret, save |-> save,
     over |-> IF save # "ok" THEN "none"
              ELSE IF ~IsSome(file) THEN "absent"
              ELSE IF file = Some(SaveContent(tasks)) THEN "synced"
              ELSE IF StorageLoad(file, TRUE).ok THEN "good"
              ELSE "bad"]

InitProgram ==
    /\ pc = "start"
    /\ tasks = ManagerNew.tasks
    /\ next_id = ManagerNew.next_id
    /\ file \in InitFiles
    /\ adds = 0
    /\ retired = {}
    /\ stdin = None
    /\ inventory = <<>>
    /\ last = Report(<<>>, Ok(<<>>), None, "none")

\* the codec is not exercised on its own
CodecOff == [phase |-> "off", args |-> None, task |-> None, text |-> None,
             back |-> None]

\* the file system refuses nothing
Init ==
    /\ InitProgram
    /\ io_budget = 0
    /\ codec = CodecOff

\* a startup that gives up when the load fails
M_StartupAborts ==
    /\ pc = "start"
    /\ \E readable \in BOOLEAN :
        /\ ~readable => (IsSome(file) /\ io_budget > 0)
        /\ io_budget' = IF readable THEN io_budget ELSE io_budget - 1
        /\ LET loaded == StorageLoad(file, readable)
               l == LoadTasksWithIdUpdate(Manager(tasks, next_id),
                                          IF loaded.ok THEN loaded.val ELSE <<>>)
           IN  /\ pc' = IF loaded.ok THEN "loop" ELSE "done"
               /\ tasks' = l.m.tasks
               /\ next_id' = l.m.next_id
               /\ last' = Report(<<>>, loaded, None, "none")
    /\ UNCHANGED <<file, adds, retired, stdin, inventory, codec>>

\* main, lines 21-35: load the existing tasks; readable is whether
\* fs::read_to_string succeeds, checked whether the build checks overflow
Startup ==
    /\ pc = "start"
    /\ \E readable \in BOOLEAN :
        /\ ~readable => (IsSome(file) /\ io_budget > 0)
        /\ io_budget' = IF readable THEN io_budget ELSE io_budget - 1
        /\ LET loaded == StorageLoad(file, readable)
           IN  IF ~loaded.ok
               THEN /\ pc' = "loop"
                    /\ UNCHANGED <<tasks, next_id>>
                    /\ last' = Report(<<>>, loaded, None, "none")
               ELSE
               LET l == LoadTasksWithIdUpdate(Manager(tasks, next_id), loaded.val)
               IN  \E checked \in BOOLEAN :
                   IF l.overflow /\ checked
                   THEN /\ pc' = "panicked"
                        /\ tasks' = loaded.val
                        /\ UNCHANGED next_id
                        /\ last' = Report(<<>>, Err("panic", "overflow"), None, "none")
                   ELSE /\ pc' = "loop"
                        /\ tasks' = l.m.tasks
                        /\ next_id' = l.m.next_id
                        /\ last' = Report(<<>>, loaded, None, "none")
    /\ UNCHANGED <<file, adds, retired, stdin, inventory, codec>>

\* a loop that returns the error of a command, or of the save, from main
M_AfterCommandReturnsError(parts, h, modifies) ==
    /\ UNCHANGED <<codec, inventory>>
    /\ stdin' = Rest(stdin)
    /\ tasks' = h.m.tasks
    /\ next_id' = h.m.next_id
    /\ IF h.res.ok /\ modifies
       THEN \E written \in BOOLEAN :
            /\ ~written => io_budget > 0
            /\ io_budget' = IF written THEN io_budget ELSE io_budget - 1
            /\ file' = IF written THEN Some(SaveContent(ListTasks(h.m))) ELSE file
            /\ pc' = IF written THEN "loop" ELSE "done"
            /\ last' = Report(parts, h.res, h.ret,
                              IF written THEN "ok" ELSE "failed")
       ELSE /\ UNCHANGED <<file, io_budget>>
            /\ pc' = IF h.res.ok THEN "loop" ELSE "done"
            /\ last' = Report(parts, h.res, h.ret, "none")

\* main, lines 77-84: report the error, or save after a modification;
\* written is whether fs::write succeeds (a refused write leaves the file),
\* checked whether the build checks overflow
AfterCommand(parts, h, modifies) ==
    \E checked \in BOOLEAN :
    /\ UNCHANGED <<codec, inventory>>
    /\ stdin' = Rest(stdin)
    /\ IF h.overflow /\ checked
       THEN /\ pc' = "panicked"
            /\ tasks' = h.m.tasks
            /\ UNCHANGED <<next_id, file, io_budget>>
            /\ last' = Report(parts, Err("panic", "overflow"), h.ret, "none")
       ELSE
           /\ pc' = "loop"
           /\ tasks' = h.m.tasks
           /\ next_id' = h.m.next_id
           /\ IF h.res.ok /\ modifies
              THEN \E written \in BOOLEAN :
                   /\ ~written => io_budget > 0
                   /\ io_budget' = IF written THEN io_budget ELSE io_budget - 1
                   /\ file' = IF written THEN Some(SaveContent(ListTasks(h.m))) ELSE file
                   /\ last' = Report(parts, h.res, h.ret,
                                     IF written THEN "ok" ELSE "failed")
              ELSE /\ UNCHANGED <<file, io_budget>>
                   /\ last' = Report(parts, h.res, h.ret, "none")

Reading(parts, word) ==
    pc = "loop" /\ NextLine(parts) /\ parts # <<>> /\ parts[1] = word

AddCommand(parts) ==
    /\ Reading(parts, W_add)
    /\ Len(tasks) < MaxTasks /\ adds < MaxAdds
    /\ LET h == HandleAddCommand(Manager(tasks, next_id), Args(parts))
       IN  /\ AfterCommand(parts, h, TRUE)
           /\ adds' = IF IsSome(h.ret) THEN adds + 1 ELSE adds
    /\ UNCHANGED retired

ListCommand(parts) ==
    /\ Reading(parts, W_list)
    /\ AfterCommand(parts, HandleListCommand(Manager(tasks, next_id), Args(parts)), FALSE)
    /\ UNCHANGED <<adds, retired>>

ShowCommand(parts) ==
    /\ Reading(parts, W_show)
    /\ AfterCommand(parts, HandleShowCommand(Manager(tasks, next_id), Args(parts)), FALSE)
    /\ UNCHANGED <<adds, retired>>

UpdateCommand(parts) ==
    /\ Reading(parts, W_update)
    /\ AfterCommand(parts, HandleUpdateCommand(Manager(tasks, next_id), Args(parts)), TRUE)
    /\ UNCHANGED <<adds, retired>>

CompleteCommand(parts) ==
    /\ Reading(parts, W_complete)
    /\ AfterCommand(parts, HandleCompleteCommand(Manager(tasks, next_id), Args(parts)), TRUE)
    /\ UNCHANGED <<adds, retired>>

DeleteCommand(parts) ==
    /\ Reading(parts, W_delete)
    /\ LET h == HandleDeleteCommand(Manager(tasks, next_id), Args(parts))
       IN  /\ AfterCommand(parts, h, TRUE)
           /\ retired' = IF IsSome(h.ret) THEN retired \cup {Unwrap(h.ret).id}
                          ELSE retired
    /\ UNCHANGED adds

StatsCommand(parts) ==
    /\ Reading(parts, W_stats)
    /\ AfterCommand(parts, HandleStatsCommand(Manager(tasks, next_id)), FALSE)
    /\ UNCHANGED <<adds, retired>>

\* show_help prints the help text
HelpCommand(parts) ==
    /\ Reading(parts, W_help)
    /\ AfterCommand(parts, Outcome(Manager(tasks, next_id), Ok(<<>>), None), FALSE)
    /\ UNCHANGED <<adds, retired>>

\* "quit" | "exit" => break
QuitCommand(parts) ==
    /\ pc = "loop" /\ NextLine(parts) /\ parts # <<>> /\ parts[1] \in {W_quit, W_exit}
    /\ pc' = "done"
    /\ stdin' = Rest(stdin)
    /\ last' = Report(parts, Ok(<<>>), None, "none")
    /\ UNCHANGED <<tasks, next_id, file, io_budget, adds, retired, inventory, codec>>

Words == {W_add, W_list, W_show, W_update, W_complete, W_delete, W_stats,
          W_help, W_quit, W_exit}

\* any other first word: "Unknown command"
UnknownCommand(parts) ==
    /\ pc = "loop" /\ NextLine(parts) /\ parts # <<>> /\ parts[1] \notin Words
    /\ AfterCommand(parts, Outcome(Manager(tasks, next_id), Ok(<<>>), None), FALSE)
    /\ UNCHANGED <<adds, retired>>

\* an empty line, or nothing read at the end of the input: continue
EmptyLine ==
    /\ pc = "loop"
    /\ NoLine
    /\ stdin' = Rest(stdin)
    /\ UNCHANGED <<pc, tasks, next_id, file, io_budget, adds, retired, last,
                   codec, inventory>>

Next ==
    \/ Startup
    \/ \E parts \in InputLines :
        \/ AddCommand(parts)
        \/ ListCommand(parts)
        \/ ShowCommand(parts)
        \/ UpdateCommand(parts)
        \/ CompleteCommand(parts)
        \/ DeleteCommand(parts)
        \/ StatsCommand(parts)
        \/ HelpCommand(parts)
        \/ QuitCommand(parts)
        \/ UnknownCommand(parts)
    \/ EmptyLine

Spec == Init /\ [][Next]_vars

(***************************************************************************)
(* task.rs on its own: a Task is made by Task::new, changed by the         *)
(* builders and the setters, then serialized, then deserialized.           *)
(***************************************************************************)
T_a_b   == <<"a", "\n", "b">>
T_blank == <<" ", " ">>

CodecIds == {0, 1, U32Max}
CodecTitles == {T_a, T_ab, T_a_b, <<>>, T_blank}
CodecTexts == {T_b, T_ab, NoneText, <<>>}

InitCodec ==
    /\ pc = "codec"
    /\ tasks = <<>>
    /\ next_id = 1
    /\ file = None
    /\ io_budget = 0
    /\ adds = 0
    /\ retired = {}
    /\ stdin = None
    /\ inventory = <<>>
    /\ last = Report(<<>>, Ok(<<>>), None, "none")
    /\ codec = [CodecOff EXCEPT !.phase = "new"]

\* Task::new(id, title, priority)
CodecNew(id, title, priority) ==
    /\ codec.phase = "new"
    /\ LET made == TaskNew(id, title, priority)
           args == Some([id |-> id, title |-> title, priority |-> priority])
       IN  codec' = IF made.ok
                    THEN [codec EXCEPT !.phase = "built", !.args = args,
                                       !.task = Some(made.val)]
                    ELSE [codec EXCEPT !.phase = "rejected", !.args = args,
                                       !.back = Some(made)]
    /\ UNCHANGED <<program, inventory>>

Building == codec.phase = "built"

CodecWithDescription(desc) ==
    /\ Building
    /\ codec' = [codec EXCEPT !.task = Some(WithDescription(Unwrap(codec.task), desc))]
    /\ UNCHANGED <<program, inventory>>

CodecWithCategory(cat) ==
    /\ Building
    /\ codec' = [codec EXCEPT !.task = Some(WithCategory(Unwrap(codec.task), cat))]
    /\ UNCHANGED <<program, inventory>>

CodecSetStatus(st) ==
    /\ Building
    /\ codec' = [codec EXCEPT !.task = Some(SetStatus(Unwrap(codec.task), st))]
    /\ UNCHANGED <<program, inventory>>

CodecSetPriority(p) ==
    /\ Building
    /\ codec' = [codec EXCEPT !.task = Some(SetPriority(Unwrap(codec.task), p))]
    /\ UNCHANGED <<program, inventory>>

\* task.serialize()
CodecSerialize ==
    /\ Building
    /\ codec' = [codec EXCEPT !.phase = "encoded",
                              !.text = Some(Serialize(Unwrap(codec.task)))]
    /\ UNCHANGED <<program, inventory>>

\* Task::deserialize(text), of a text serialize gave or of a line read
CodecDeserialize ==
    /\ codec.phase \in {"encoded", "read"}
    /\ codec' = [codec EXCEPT !.phase = IF codec.phase = "encoded"
                                        THEN "decoded" ELSE "parsed",
                              !.back = Some(Deserialize(Unwrap(codec.text)))]
    /\ UNCHANGED <<program, inventory>>

\* the lines handed to deserialize: seven fields with every id, priority and
\* status text below, lines of one, four and eight fields, and a line whose
\* description and category are empty and whose created_at is no date
T_PENDING  == <<"P","E","N","D","I","N","G">>
T_Complete == <<"C","o","m","p","l","e","t","e">>
LineIds == {U32ToString(1), <<"+">> \o U32ToString(1), <<"0">> \o U32ToString(1),
            U32ToString(U32Max), U32ToString(U32Max + 1), T_x, <<>>,
            <<"-">> \o U32ToString(1), <<" ">> \o U32ToString(1), <<"+">>}
LinePriorities == {T_low, T_HIGH, T_urgent, <<>>}
LineStatuses == {T_PENDING, T_Complete, T_done}
LineTitles == {T_a, <<>>}
CodecLines ==
    {Join(<<id, title, NoneText, p, st, T_c, <<>> >>, <<Bar>>) :
        id \in LineIds, title \in LineTitles, p \in LinePriorities,
        st \in LineStatuses}
    \cup {<<>>, L_short, Serialize(FileTask(1, T_ab)),
          Join(<<U32ToString(1), <<" ">>, <<>>, T_low, T_PENDING, <<>>, T_x>>, <<Bar>>)}

\* a line is handed to Task::deserialize
CodecReadLine(line) ==
    /\ codec.phase = "new"
    /\ codec' = [codec EXCEPT !.phase = "read", !.text = Some(line)]
    /\ UNCHANGED <<program, inventory>>

\* the texts handed to the two from_str: every spelling in upper and lower
\* case of the words, and texts that are none of them
T_medium     == <<"m","e","d","i","u","m">>
T_high       == <<"h","i","g","h">>
T_pending    == <<"p","e","n","d","i","n","g">>
T_inprogress == <<"i","n","p","r","o","g","r","e","s","s">>
T_completed  == <<"c","o","m","p","l","e","t","e","d">>
T_complete   == <<"c","o","m","p","l","e","t","e">>
UpperChar(c) ==
    IF \E i \in 1..26 : LowerChars[i] = c
    THEN UpperChars[CHOOSE i \in 1..26 : LowerChars[i] = c]
    ELSE c
CaseSpellings(w) ==
    {[i \in 1..Len(w) |-> IF i \in U THEN UpperChar(w[i]) ELSE w[i]] :
        U \in SUBSET (1..Len(w))}
PriorityTexts ==
    UNION {CaseSpellings(w) : w \in {T_low, T_medium, T_high, T_critical}}
        \cup {T_urgent, <<>>, <<" ">> \o T_low, T_low \o <<" ">>, <<"l","o">>,
              <<"U","r","g","e","n","t">>}
StatusTexts ==
    UNION {CaseSpellings(w) :
            w \in {T_pending, T_progress, T_inprogress, T_completed, T_complete}}
        \cup {T_done, <<>>, <<"D","o","n","e">>, <<"i","n"," ","p","r","o","g","r","e","s","s">>,
              T_pending \o <<" ">>}

\* Priority::from_str(s)
CodecParsePriority(s) ==
    /\ codec.phase = "new"
    /\ codec' = [codec EXCEPT !.phase = "priority", !.text = Some(s),
                              !.back = Some(PriorityFromStr(s))]
    /\ UNCHANGED <<program, inventory>>

\* Status::from_str(s)
CodecParseStatus(s) ==
    /\ codec.phase = "new"
    /\ codec' = [codec EXCEPT !.phase = "status", !.text = Some(s),
                              !.back = Some(StatusFromStr(s))]
    /\ UNCHANGED <<program, inventory>>

NextCodec ==
    \/ \E id \in CodecIds, title \in CodecTitles, p \in Priorities :
            CodecNew(id, title, p)
    \/ \E desc \in CodecTexts : CodecWithDescription(desc)
    \/ \E cat \in CodecTexts : CodecWithCategory(cat)
    \/ \E st \in Statuses : CodecSetStatus(st)
    \/ \E p \in Priorities : CodecSetPriority(p)
    \/ CodecSerialize
    \/ \E line \in CodecLines : CodecReadLine(line)
    \/ CodecDeserialize
    \/ \E s \in PriorityTexts : CodecParsePriority(s)
    \/ \E s \in StatusTexts : CodecParseStatus(s)

SpecCodec == InitCodec /\ [][NextCodec]_vars

(***************************************************************************)
(* manager.rs on its own: a TaskManager<Task> made by new() and called     *)
(* through its public functions in any order.                              *)
(***************************************************************************)
StoreIds == {1, 2, U32Max}
StoreTasks == {FileTask(id, T_a) : id \in StoreIds}
StoreLoads == {<<>>} \cup {<<t>> : t \in StoreTasks}
                \cup {<<FileTask(2, T_a), FileTask(1, T_a)>>}

InitStore ==
    /\ pc = "store"
    /\ tasks = ManagerNew.tasks
    /\ next_id = ManagerNew.next_id
    /\ file = None
    /\ io_budget = 0
    /\ adds = 0
    /\ retired = {}
    /\ stdin = None
    /\ inventory = <<>>
    /\ last = Report(<<>>, Ok(<<>>), None, "none")
    /\ codec = CodecOff

\* the manager after a call, and what the call returned: res is Ok of a
\* sequence (empty, or the number or the records returned) or the error, ret
\* the record returned if one was
Called(call, m, res, ret) ==
    /\ pc' = "store"
    /\ tasks' = m.tasks
    /\ next_id' = m.next_id
    /\ last' = Report(call, res, ret, "none")
    /\ UNCHANGED <<file, io_budget, retired, stdin, inventory, codec>>

StoreAddTask(task) ==
    /\ pc = "store"
    /\ Len(tasks) < MaxTasks /\ adds < MaxAdds
    /\ adds' = adds + 1
    /\ LET added == AddTask(Manager(tasks, next_id), task)
       IN  \E checked \in BOOLEAN :
           IF added.overflow /\ checked
           THEN /\ pc' = "panicked"
                /\ tasks' = added.m.tasks
                /\ last' = Report(<<"add_task", task.id>>,
                                  Err("panic", "overflow"), None, "none")
                /\ UNCHANGED <<next_id, file, io_budget, retired, stdin, inventory, codec>>
           ELSE Called(<<"add_task", task.id>>, added.m, Ok(<<added.ret>>), None)

StoreGetTask(id) ==
    /\ pc = "store"
    /\ LET m == Manager(tasks, next_id)
           pos == GetTask(m, id)
       IN  Called(<<"get_task", id>>, m, Ok(<<>>),
                  IF pos = 0 THEN None ELSE Some(tasks[pos]))
    /\ UNCHANGED adds

StoreGetTaskById(id) ==
    /\ pc = "store"
    /\ LET m == Manager(tasks, next_id)
           pos == GetTaskById(m, id)
       IN  Called(<<"get_task_by_id", id>>, m, Ok(<<>>),
                  IF pos = 0 THEN None ELSE Some(tasks[pos]))
    /\ UNCHANGED adds

StoreRemoveTask(id) ==
    /\ pc = "store"
    /\ LET r == RemoveTask(Manager(tasks, next_id), id)
       IN  Called(<<"remove_task", id>>, r.m,
                  IF r.res.ok THEN Ok(<<>>) ELSE r.res,
                  IF r.res.ok THEN Some(r.res.val) ELSE None)
    /\ UNCHANGED adds

StoreRemoveTaskById(id) ==
    /\ pc = "store"
    /\ LET r == RemoveTaskById(Manager(tasks, next_id), id)
       IN  Called(<<"remove_task_by_id", id>>, r.m,
                  IF r.res.ok THEN Ok(<<>>) ELSE r.res,
                  IF r.res.ok THEN Some(r.res.val) ELSE None)
    /\ UNCHANGED adds

StoreListTasks ==
    /\ pc = "store"
    /\ LET m == Manager(tasks, next_id)
       IN  Called(<<"list_tasks", 0>>, m, Ok(ListTasks(m)), None)
    /\ UNCHANGED adds

StoreCount ==
    /\ pc = "store"
    /\ LET m == Manager(tasks, next_id)
       IN  Called(<<"count", 0>>, m, Ok(<<Count(m)>>), None)
    /\ UNCHANGED adds

StoreLoadTasks(ts) ==
    /\ pc = "store"
    /\ Called(<<"load_tasks", ts, tasks>>,
              LoadTasks(Manager(tasks, next_id), ts), Ok(<<>>), None)
    /\ UNCHANGED adds

StoreLoadTasksWithIdUpdate(ts) ==
    /\ pc = "store"
    /\ LET l == LoadTasksWithIdUpdate(Manager(tasks, next_id), ts)
       IN  \E checked \in BOOLEAN :
           IF l.overflow /\ checked
           THEN /\ pc' = "panicked"
                /\ tasks' = ts
                /\ last' = Report(<<"load_tasks_with_id_update", ts, tasks>>,
                                  Err("panic", "overflow"), None, "none")
                /\ UNCHANGED <<next_id, file, io_budget, retired, stdin, inventory, codec>>
           ELSE Called(<<"load_tasks_with_id_update", ts, tasks>>, l.m,
                       Ok(<<>>), None)
    /\ UNCHANGED adds

NextStore ==
    \/ \E task \in StoreTasks : StoreAddTask(task)
    \/ \E id \in StoreIds \cup {3} :
        \/ StoreGetTask(id)
        \/ StoreGetTaskById(id)
        \/ StoreRemoveTask(id)
        \/ StoreRemoveTaskById(id)
    \/ StoreListTasks
    \/ StoreCount
    \/ \E ts \in StoreLoads :
        \/ StoreLoadTasks(ts)
        \/ StoreLoadTasksWithIdUpdate(ts)

SpecStore == InitStore /\ [][NextStore]_vars

(***************************************************************************)
(* storage.rs on its own: FileStorage::load of a file of a few lines.      *)
(***************************************************************************)
\* the lines a file is made of: two records, an empty line, a line of
\* white space, a line of four fields, a line whose id is no number
LoadLineSet ==
    {Serialize(FileTask(1, T_a)), Serialize(FileTask(2, T_b)),
     <<>>, <<" ", "\t">>, L_short, L_badid}
LoadEnds == {<<NewLine>>, CrLf}
\* the lines joined by the line ending, the last line ended by it or not
LoadFiles ==
    {None} \cup
    {Some(Join(ls, end) \o (IF closed /\ ls # <<>> THEN end ELSE <<>>)) :
        ls \in UNION {[1..k -> LoadLineSet] : k \in 0..MaxLines},
        end \in LoadEnds, closed \in BOOLEAN}

InitLoad ==
    /\ pc = "load"
    /\ tasks = <<>>
    /\ next_id = 1
    /\ file \in LoadFiles
    /\ io_budget \in {0, 1}
    /\ adds = 0
    /\ retired = {}
    /\ stdin = None
    /\ inventory = <<>>
    /\ last = Report(<<>>, Ok(<<>>), None, "none")
    /\ codec = CodecOff

\* storage.load(); the read is refused where the budget allows it
LoadCall ==
    /\ pc = "load"
    /\ pc' = "loaded"
    /\ \E readable \in BOOLEAN :
        /\ ~readable => (IsSome(file) /\ io_budget > 0)
        /\ io_budget' = IF readable THEN io_budget ELSE io_budget - 1
        /\ last' = Report(<<>>, StorageLoad(file, readable), None,
                          IF readable THEN "none" ELSE "refused")
    /\ UNCHANGED <<tasks, next_id, file, adds, retired, stdin, inventory, codec>>

NextLoad == LoadCall

SpecLoad == InitLoad /\ [][NextLoad]_vars

(***************************************************************************)
(* The program on a file system that refuses reads and writes: up to       *)
(* MaxIoFaults calls of fs::read_to_string and fs::write fail.             *)
(***************************************************************************)
\* no file; one record; a line of four fields after a good line
IoFiles ==
    { None,
      Some(Serialize(FileTask(1, T_a))),
      Some(Serialize(FileTask(1, T_a)) \o <<NewLine>> \o L_short) }

\* a line of every command, and one for every kind of error a handler returns
IoLines ==
    { <<W_add, T_a, T_low>>,
      <<W_add, T_a>>,
      <<W_add, T_a, T_urgent>>,
      <<W_list>>,
      <<W_show, T_x>>,
      <<W_show, U32ToString(1)>>,
      <<W_update, U32ToString(1), W_status>>,
      <<W_update, U32ToString(1), W_status, T_done>>,
      <<W_update, U32ToString(1), W_status, T_progress>>,
      <<W_update, U32ToString(1), W_category, T_c>>,
      <<W_complete, U32ToString(2)>>,
      <<W_delete, T_x>>,
      <<W_delete, U32ToString(1)>>,
      <<W_stats>>, <<W_help>>, <<W_quit>>, <<T_x>> }

InitIo ==
    /\ pc = "start"
    /\ tasks = ManagerNew.tasks
    /\ next_id = ManagerNew.next_id
    /\ file \in IoFiles
    /\ io_budget = MaxIoFaults
    /\ adds = 0
    /\ retired = {}
    /\ stdin = None
    /\ inventory = <<>>
    /\ last = Report(<<>>, Ok(<<>>), None, "none")
    /\ codec = CodecOff

NextIo ==
    \/ Startup
    \/ \E parts \in IoLines :
        \/ AddCommand(parts)
        \/ ListCommand(parts)
        \/ ShowCommand(parts)
        \/ UpdateCommand(parts)
        \/ CompleteCommand(parts)
        \/ DeleteCommand(parts)
        \/ StatsCommand(parts)
        \/ HelpCommand(parts)
        \/ QuitCommand(parts)
        \/ UnknownCommand(parts)
    \/ EmptyLine

SpecIo == InitIo /\ [][NextIo]_vars

(***************************************************************************)
(* The program reading a standard input that ends: a pipe or a file of at  *)
(* most MaxInput lines.  The process is scheduled for as long as it runs.   *)
(***************************************************************************)
\* a line of every command and an empty line
EofLines ==
    { <<W_add, T_a, T_low>>,
      <<W_list>>,
      <<W_show, U32ToString(1)>>,
      <<W_update, U32ToString(1), W_status, T_progress>>,
      <<W_complete, U32ToString(2)>>,
      <<W_delete, U32ToString(1)>>,
      <<W_stats>>, <<W_help>>, <<W_quit>>, <<T_x>>,
      <<>> }

InitEof ==
    /\ pc = "start"
    /\ tasks = ManagerNew.tasks
    /\ next_id = ManagerNew.next_id
    /\ file = None
    /\ io_budget = 0
    /\ adds = 0
    /\ retired = {}
    /\ inventory = <<>>
    /\ last = Report(<<>>, Ok(<<>>), None, "none")
    /\ codec = CodecOff
    /\ stdin \in {Some(ls) : ls \in UNION {[1..k -> EofLines] : k \in 0..MaxInput}}

\* a step that reads a line or moves the process on is taken when it can be
SpecEof == InitEof /\ [][Next]_vars /\ WF_<<pc, stdin>>(Next)

(***************************************************************************)
(* Exercise 03 (03-struct-enum-exercises): the inventory, a Vec<Item>      *)
(* changed by process_action.  quantity and value are u32.                 *)
(***************************************************************************)
\* Item::new
ItemNew(name, item_type, quantity, value) ==
    [name |-> name, item_type |-> item_type, quantity |-> quantity,
     value |-> value]

\* Item::total_value: value * quantity in u32
TotalValue(item) == (item.value * item.quantity) % (U32Max + 1)

\* inventory.iter_mut().find(|i| i.name == name): the index, 0 for None
Find(inv, name) ==
    IF \E i \in 1..Len(inv) : inv[i].name = name
    THEN CHOOSE i \in 1..Len(inv) :
            inv[i].name = name /\ \A j \in 1..(i - 1) : inv[j].name # name
    ELSE 0

\* inventory.retain(|i| i.name != name)
RECURSIVE Retain(_, _)
Retain(inv, name) ==
    IF inv = <<>> THEN <<>>
    ELSE IF Head(inv).name # name THEN <<Head(inv)>> \o Retain(Tail(inv), name)
    ELSE Retain(Tail(inv), name)

\* process_action, InventoryAction::Add: the inventory after it, and whether
\* the sum of the quantities overflows
ProcessAdd(inv, item) ==
    LET pos == Find(inv, item.name)
    IN  IF pos # 0
        THEN [inv |-> [inv EXCEPT ![pos].quantity =
                            U32Add(inv[pos].quantity, item.quantity)],
              overflow |-> Overflows(inv[pos].quantity, item.quantity)]
        ELSE [inv |-> Append(inv, item), overflow |-> FALSE]

\* process_action, InventoryAction::Remove
ProcessRemove(inv, name, quantity) ==
    LET pos == Find(inv, name)
    IN  IF pos = 0 THEN inv
        ELSE IF inv[pos].quantity >= quantity
        THEN IF inv[pos].quantity - quantity = 0
             THEN Retain(inv, name)
             ELSE [inv EXCEPT ![pos].quantity = inv[pos].quantity - quantity]
        ELSE inv

\* process_action, InventoryAction::Use
ProcessUse(inv, name) ==
    LET pos == Find(inv, name)
    IN  IF pos = 0 THEN inv
        ELSE IF inv[pos].item_type # "Consumable" THEN inv
        ELSE IF inv[pos].quantity > 0
        THEN IF inv[pos].quantity - 1 = 0
             THEN Retain(inv, name)
             ELSE [inv EXCEPT ![pos].quantity = inv[pos].quantity - 1]
        ELSE inv

\* process_action, InventoryAction::List: whether a product value * quantity
\* or the sum of the totals overflows
RECURSIVE SumOverflows(_, _)
SumOverflows(inv, acc) ==
    IF inv = <<>> THEN FALSE
    ELSE \/ Head(inv).value * Head(inv).quantity > U32Max
         \/ acc + TotalValue(Head(inv)) > U32Max
         \/ SumOverflows(Tail(inv), U32Add(acc, TotalValue(Head(inv))))

\* the items and the quantities handed to the actions: a consumable worth
\* 2 and a weapon worth 1, in any of the quantities
ItemNames == {"Health Potion", "Iron Sword"}
Quantities == {0, 1, 2, U32Max}
Items ==
    {ItemNew("Health Potion", "Consumable", q, 2) : q \in Quantities}
        \cup {ItemNew("Iron Sword", "Weapon", q, 1) : q \in Quantities}

InitInventory ==
    /\ pc = "inventory"
    /\ inventory = <<>>
    /\ tasks = <<>>
    /\ next_id = 1
    /\ file = None
    /\ io_budget = 0
    /\ adds = 0
    /\ retired = {}
    /\ stdin = None
    /\ last = Report(<<>>, Ok(<<>>), None, "none")
    /\ codec = CodecOff

\* a call of process_action: the action, its name and quantity; where the
\* build checks overflow (checked) an overflow ends the process
Processed(cmd, after, overflow) ==
    /\ \E checked \in BOOLEAN :
        IF overflow /\ checked
        THEN /\ pc' = "panicked"
             /\ UNCHANGED inventory
             /\ last' = Report(cmd, Err("panic", "overflow"), None, "none")
        ELSE /\ pc' = "inventory"
             /\ inventory' = after
             /\ last' = Report(cmd, Ok(<<>>), None, "none")
    /\ UNCHANGED <<tasks, next_id, file, io_budget, adds, retired, stdin, codec>>

InventoryAdd(item) ==
    /\ pc = "inventory"
    /\ LET r == ProcessAdd(inventory, item)
       IN  Processed(<<"Add", item.name, item.quantity>>, r.inv, r.overflow)

InventoryRemove(name, quantity) ==
    /\ pc = "inventory"
    /\ Processed(<<"Remove", name, quantity>>,
                 ProcessRemove(inventory, name, quantity), FALSE)

InventoryUse(name) ==
    /\ pc = "inventory"
    /\ Processed(<<"Use", name, 0>>, ProcessUse(inventory, name), FALSE)

InventoryList ==
    /\ pc = "inventory"
    /\ Processed(<<"List", "", 0>>, inventory, SumOverflows(inventory, 0))

NextInventory ==
    \/ \E item \in Items : InventoryAdd(item)
    \/ \E name \in ItemNames, quantity \in Quantities :
            InventoryRemove(name, quantity)
    \/ \E name \in ItemNames : InventoryUse(name)
    \/ InventoryList

SpecInventory == InitInventory /\ [][NextInventory]_vars

(***************************************************************************)
(* The program and the record on its own, side by side: a behaviour is one *)
(* of the program or one of task.rs.                                       *)
(***************************************************************************)
InitBoth == Init \/ InitCodec

NextBoth == Next \/ NextCodec

SpecBoth == InitBoth /\ [][NextBoth]_vars

(***************************************************************************)
(* Properties                                                              *)
(***************************************************************************)
\* the last step was an add command whose add_task returned
AddReturned ==
    pc = "loop" /\ last.cmd # <<>> /\ last.cmd[1] = W_add /\ IsSome(last.ret)

\* the last step was the startup load, and it succeeded
JustLoaded == pc = "loop" /\ last.cmd = <<>> /\ last.res.ok

\* the last step was a command of that word
LastWas(word) == last.cmd # <<>> /\ last.cmd[1] = word

\* n is one more than the largest id of ts, 1 when ts is empty
OneMoreThanLargest(n, ts) ==
    /\ \A i \in 1..Len(ts) : ts[i].id < n
    /\ ts = <<>> => n = 1
    /\ ts # <<>> => \E i \in 1..Len(ts) : n = ts[i].id + 1

\* C1: no two records of the store share an id.
C1_UniqueIds ==
    \A i, j \in 1..Len(tasks) : i # j => tasks[i].id # tasks[j].id

\* C2: an add never gives a new record the id of a record that was removed.
C2_NoIdReuse ==
    AddReturned => tasks[Len(tasks)].id \notin retired

\* C3: the value add_task returns is the id of the record it appended.
C3_AddReturnsRecordId ==
    AddReturned => Unwrap(last.ret) = tasks[Len(tasks)].id

\* the last step was a load of the store, by either of its two functions
StoreLoaded ==
    /\ pc = "store" /\ last.cmd # <<>>
    /\ last.cmd[1] \in {"load_tasks", "load_tasks_with_id_update"}

\* C4: after a load, next_id is one more than the largest loaded id, and 1
\* when nothing was loaded.
C4_NextIdAfterLoad ==
    (JustLoaded \/ StoreLoaded) => OneMoreThanLargest(next_id, tasks)

\* C5: next_id never decreases.
C5_NextIdNeverDecreases == [][next_id' >= next_id]_vars

\* C6: a delete of an id no record has reports NotFound(id) and leaves the
\* collection and next_id as they were; a delete of an id a record has
\* returns that record, and the collection is the old one without it.
C6_RemovalById ==
    [][(pc' = "loop" /\ last'.cmd # <<>> /\ last'.cmd[1] = W_delete
            /\ Len(last'.cmd) >= 2 /\ ParseU32(last'.cmd[2]).ok)
        => LET id == ParseU32(last'.cmd[2]).val
           IN  IF \A i \in 1..Len(tasks) : tasks[i].id # id
               THEN /\ ~last'.res.ok /\ last'.res.err = "NotFound"
                    /\ last'.res.val = id
                    /\ tasks' = tasks /\ next_id' = next_id
               ELSE \E pos \in 1..Len(tasks) :
                    /\ tasks[pos].id = id
                    /\ last'.ret = Some(tasks[pos])
                    /\ Len(tasks') = Len(tasks) - 1
                    /\ tasks' = [k \in 1..(Len(tasks) - 1) |->
                                    IF k < pos THEN tasks[k] ELSE tasks[k + 1]]
      ]_vars

\* C6 witness: a delete removed one of two records.
C6_Removed ==
    pc = "loop" /\ LastWas(W_delete) /\ IsSome(last.ret) /\ Len(tasks) = 1

\* what a fresh process reads from the file
FreshLoad == StorageLoad(file, TRUE)
FreshManager == LoadTasksWithIdUpdate(ManagerNew, FreshLoad.val)

\* no "|" and no carriage return in the text (a record in memory never holds
\* a line feed: a command line is split at white space, a file at line feeds)
CleanText(t) == \A i \in 1..Len(t) : t[i] \notin {Bar, "\r"}
CleanOption(o) == IsSome(o) => (CleanText(Unwrap(o)) /\ Unwrap(o) # NoneText)
CleanTask(t) ==
    /\ CleanText(t.title) /\ CleanText(t.created_at)
    /\ CleanOption(t.description) /\ CleanOption(t.category)
CleanTasks(ts) == \A i \in 1..Len(ts) : CleanTask(ts[i])

\* C8: after a save, a load into a fresh store gives the same records in
\* the same order, and next_id one more than the largest id. Stated for the
\* records the line format can hold (no "|", no carriage return, no optional
\* field that is the text "None"): the narrower statement fails already.
C8_SaveLoadRoundTrip ==
    (last.save = "ok" /\ CleanTasks(tasks)) =>
        /\ FreshLoad.ok
        /\ FreshLoad.val = tasks
        /\ ~FreshManager.overflow
        /\ OneMoreThanLargest(FreshManager.m.next_id, tasks)

\* C9 as stated: after every command that modified the store and saved it,
\* a load of the file gives exactly the records in memory.
C9_FileMatchesMemory ==
    last.save = "ok" => (FreshLoad.ok /\ FreshLoad.val = tasks)

\* C9 amended: the same, where no text field of a record holds "|" or a
\* carriage return and no optional field is the text "None".
C9_FileMatchesCleanMemory ==
    (last.save = "ok" /\ CleanTasks(tasks))
        => (FreshLoad.ok /\ FreshLoad.val = tasks)

\* C9 witness: an update of a title was saved, two clean records in memory.
C9_SavedCleanUpdate ==
    /\ last.save = "ok" /\ LastWas(W_update) /\ last.cmd[3] = W_title
    /\ Len(tasks) = 2 /\ CleanTasks(tasks)

\* C10: where no file exists the startup load is no error and gives an
\* empty collection: the loop starts with count() = 0 and next_id = 1.
C10_MissingFileLoadsEmpty ==
    (pc = "loop" /\ last.cmd = <<>> /\ file = None)
        => (last.res.ok /\ last.res.val = <<>> /\ Len(tasks) = 0 /\ next_id = 1)

\* C10 witness: the loop was entered on a first run, no file there.
C10_FirstRun ==
    pc = "loop" /\ last.cmd = <<>> /\ file = None /\ last.res.ok

\* the text of an optional field comes back as it was: no "|" in it, and
\* it is not the text "None"
BarFree(t) == \A i \in 1..Len(t) : t[i] # Bar
KeptOption(o) == IsSome(o) => (BarFree(Unwrap(o)) /\ Unwrap(o) # NoneText)
Encodable(t) ==
    /\ BarFree(t.title) /\ BarFree(t.created_at)
    /\ KeptOption(t.description) /\ KeptOption(t.category)

\* the codec has decoded what it encoded
Decoded == codec.phase = "decoded"
RoundTrips == Unwrap(codec.back).ok /\ Unwrap(codec.back).val = Unwrap(codec.task)

\* C7 as stated: deserialize(serialize(t)) succeeds and gives t back, for
\* every Task that Task::new, the builders and the setters produce.
C7_RoundTrip == Decoded => RoundTrips

\* C7 amended: the same, for the Tasks whose title, description, category
\* and created_at hold no "|" and whose description and category are not
\* the text "None".
C7_RoundTripEncodable == (Decoded /\ Encodable(Unwrap(codec.task))) => RoundTrips

\* C7 witness: a Task with a description, a category, a line break in its
\* title and a status and priority that were set has been through the codec.
C7_DecodedFull ==
    /\ Decoded /\ Encodable(Unwrap(codec.task))
    /\ Unwrap(codec.task).description = Some(T_b)
    /\ Unwrap(codec.task).category = Some(<<>>)
    /\ Unwrap(codec.task).title = T_a_b
    /\ Unwrap(codec.task).status = "InProgress"
    /\ Unwrap(codec.task).priority = "Critical"
    /\ Unwrap(codec.task).id = U32Max

\* the number of "|"-separated fields of a line, and its first field
FieldCount(line) == Cardinality({i \in 1..Len(line) : line[i] = Bar}) + 1
FirstField(line) ==
    IF \E i \in 1..Len(line) : line[i] = Bar
    THEN SubSeq(line, 1, (CHOOSE i \in 1..Len(line) :
                            line[i] = Bar /\ \A j \in 1..(i - 1) : line[j] # Bar) - 1)
    ELSE line

\* s is the text of an unsigned 32-bit integer: an optional "+", any
\* leading zeros, the decimal digits of a number up to u32::MAX
RECURSIVE Zeros(_)
Zeros(k) == IF k = 0 THEN <<>> ELSE <<"0">> \o Zeros(k - 1)
IsU32Text(s) ==
    \E n \in 0..U32Max, k \in 0..Len(s), sign \in {<<>>, <<"+">>} :
        s = sign \o Zeros(k) \o U32ToString(n)

\* deserialize was handed a line and has returned
Parsed == codec.phase = "parsed"
ParsedLine == Unwrap(codec.text)
ParsedBack == Unwrap(codec.back)

\* C11: deserialize of a line whose number of "|"-separated fields is not 7
\* returns SerializationError, and of a line of 7 fields whose first field
\* is no unsigned 32-bit integer returns ParseError; neither gives a Task.
C11_MalformedLineRejected ==
    Parsed =>
        /\ FieldCount(ParsedLine) # 7 =>
            (~ParsedBack.ok /\ ParsedBack.err = "SerializationError")
        /\ (FieldCount(ParsedLine) = 7 /\ ~IsU32Text(FirstField(ParsedLine))) =>
            (~ParsedBack.ok /\ ParsedBack.err = "ParseError")

\* C11 witness: a line of 7 fields whose id is one more than u32::MAX was
\* rejected with ParseError.
C11_RejectedBigId ==
    /\ Parsed /\ FieldCount(ParsedLine) = 7
    /\ FirstField(ParsedLine) = U32ToString(U32Max + 1)
    /\ ~ParsedBack.ok /\ ParsedBack.err = "ParseError"

\* load() has returned from reading a file that exists
Loaded == pc = "loaded" /\ IsSome(file) /\ last.save = "none"
\* the lines of the file that are not blank, by their place in the file
FileLines == Lines(Unwrap(file))
NonBlank == {i \in 1..Len(FileLines) : ~TrimIsEmpty(FileLines[i])}
Failing == {i \in NonBlank : ~Deserialize(FileLines[i]).ok}
NthNonBlank(k) == CHOOSE i \in NonBlank : Cardinality({j \in NonBlank : j <= i}) = k

\* C12: load() skips the blank lines and decodes the others in file order;
\* where a line fails to decode, load() returns the error of the first such
\* line and no records.
C12_LoadAllOrNothing ==
    Loaded =>
        IF Failing = {}
        THEN /\ last.res.ok
             /\ Len(last.res.val) = Cardinality(NonBlank)
             /\ \A k \in 1..Cardinality(NonBlank) :
                    last.res.val[k] = Deserialize(FileLines[NthNonBlank(k)]).val
        ELSE /\ ~last.res.ok
             /\ \E i \in Failing :
                    /\ \A j \in Failing : i <= j
                    /\ last.res = Deserialize(FileLines[i])

\* C12 witness: a record, then a line of four fields, then a line whose id
\* is no number: the load failed with the error of the four-field line.
C12_FailedAfterGoodLine ==
    /\ Loaded /\ Len(FileLines) = 3
    /\ Deserialize(FileLines[1]).ok
    /\ FileLines[2] = L_short /\ FileLines[3] = L_badid
    /\ ~last.res.ok /\ last.res.err = "SerializationError"

\* C13: Task::new with an empty or white-space-only title returns
\* ValidationError and no task; with any other title it returns a task of
\* the given id, title and priority, Pending, no description, no category.
C13_ConstructionValidation ==
    [][(codec.phase = "new" /\ IsSome(codec'.args)) =>
        LET a == Unwrap(codec'.args)
        IN  IF \A i \in 1..Len(a.title) : a.title[i] \in WhiteSpace
            THEN /\ codec'.phase = "rejected"
                 /\ codec'.task = None
                 /\ ~Unwrap(codec'.back).ok
                 /\ Unwrap(codec'.back).err = "ValidationError"
            ELSE /\ codec'.phase = "built"
                 /\ Unwrap(codec'.task).id = a.id
                 /\ Unwrap(codec'.task).title = a.title
                 /\ Unwrap(codec'.task).priority = a.priority
                 /\ Unwrap(codec'.task).status = "Pending"
                 /\ Unwrap(codec'.task).description = None
                 /\ Unwrap(codec'.task).category = None
      ]_vars

\* C13 witness: Task::new refused a title of two spaces.
C13_RefusedBlankTitle ==
    /\ codec.phase = "rejected" /\ Unwrap(codec.args).title = T_blank
    /\ Unwrap(codec.back).err = "ValidationError"

\* C14: in every state of the store the title of every record is non-empty.
C14_TitlesNonEmpty ==
    \A i \in 1..Len(tasks) : tasks[i].title # <<>>

\* the ids of the records, in the order of the store
Ids(ts) == [i \in 1..Len(ts) |-> ts[i].id]

\* C15: no step of the command loop changes the id of a record that stays
\* in the store (the ids are the old ones, at most one of them taken out by
\* a delete, at most one put last by an add), and no builder or setter
\* changes the id of the record it is applied to.
C15_IdImmutable ==
    [][/\ (pc = "loop" /\ pc' = "loop") =>
            \/ /\ Len(tasks') \in {Len(tasks), Len(tasks) + 1}
               /\ \A i \in 1..Len(tasks) : tasks'[i].id = tasks[i].id
            \/ /\ last'.cmd[1] = W_delete
               /\ \E pos \in 1..Len(tasks) :
                    Ids(tasks') = Ids(VecRemove(tasks, pos))
       /\ (codec.phase = "built" /\ codec'.phase \in {"built", "encoded"}) =>
            Unwrap(codec'.task).id = Unwrap(codec.task).id
      ]_vars

\* C15 witness: the status of the second of two records was updated, the
\* records still numbered 1 and 2.
C15_UpdatedSecond ==
    /\ pc = "loop" /\ LastWas(W_complete) /\ last.res.ok
    /\ Len(tasks) = 2 /\ Ids(tasks) = <<1, 2>>
    /\ tasks[2].status = "Completed"

\* s spells the word w, each letter in upper or in lower case
Spells(s, w) ==
    /\ Len(s) = Len(w)
    /\ \A i \in 1..Len(w) : s[i] \in {w[i], UpperChar(w[i])}

\* C16: every spelling in upper and lower case of low, medium, high and
\* critical parses to the variant of the word, and any other text s fails
\* with InvalidPriority carrying s as given.
C16_PriorityParse ==
    codec.phase = "priority" =>
        LET s == Unwrap(codec.text)
            back == Unwrap(codec.back)
        IN  CASE Spells(s, T_low)      -> back = Ok("Low")
              [] Spells(s, T_medium)   -> back = Ok("Medium")
              [] Spells(s, T_high)     -> back = Ok("High")
              [] Spells(s, T_critical) -> back = Ok("Critical")
              [] OTHER -> (~back.ok /\ back.err = "InvalidPriority" /\ back.val = s)

\* C16 witness: "cRiTiCaL" was parsed, to Critical.
C16_ParsedMixedCase ==
    /\ codec.phase = "priority"
    /\ Unwrap(codec.text) = <<"c","R","i","T","i","C","a","L">>
    /\ Unwrap(codec.back) = Ok("Critical")

\* C17 as stated: complete and completed in any letter case parse to
\* Completed, pending to Pending, in_progress to InProgress, and any other
\* text s fails with InvalidStatus carrying s.
C17_StatusParse ==
    codec.phase = "status" =>
        LET s == Unwrap(codec.text)
            back == Unwrap(codec.back)
        IN  CASE Spells(s, T_pending)   -> back = Ok("Pending")
              [] Spells(s, T_progress)  -> back = Ok("InProgress")
              [] Spells(s, T_completed) -> back = Ok("Completed")
              [] Spells(s, T_complete)  -> back = Ok("Completed")
              [] OTHER -> (~back.ok /\ back.err = "InvalidStatus" /\ back.val = s)

\* C17 amended: the same, and inprogress in any letter case parses to
\* InProgress as in_progress does.
C17_StatusParseSynonyms ==
    codec.phase = "status" =>
        LET s == Unwrap(codec.text)
            back == Unwrap(codec.back)
        IN  CASE Spells(s, T_pending)    -> back = Ok("Pending")
              [] Spells(s, T_progress)   -> back = Ok("InProgress")
              [] Spells(s, T_inprogress) -> back = Ok("InProgress")
              [] Spells(s, T_completed)  -> back = Ok("Completed")
              [] Spells(s, T_complete)   -> back = Ok("Completed")
              [] OTHER -> (~back.ok /\ back.err = "InvalidStatus" /\ back.val = s)

\* C17 witness: "Done" was parsed and refused, the error carrying "Done".
C17_RefusedDone ==
    /\ codec.phase = "status"
    /\ Unwrap(codec.text) = <<"D","o","n","e">>
    /\ Unwrap(codec.back) = Err("InvalidStatus", <<"D","o","n","e">>)

\* the last call of the store was a load: what it was given, what the
\* store held before
LoadCalled ==
    /\ pc \in {"store", "panicked"} /\ last.cmd # <<>>
    /\ last.cmd[1] \in {"load_tasks", "load_tasks_with_id_update"}
LoadGiven == last.cmd[2]
LoadHeldBefore == last.cmd[3]

\* C18: after a load the store holds exactly the given tasks in the given
\* order, whatever it held before.
C18_LoadReplaces ==
    LoadCalled => tasks = LoadGiven

\* C18 witness: load_tasks was given one record while the store held two
\* others.
C18_LoadedOverTwo ==
    /\ LoadCalled /\ last.cmd[1] = "load_tasks"
    /\ Len(LoadHeldBefore) = 2 /\ Len(LoadGiven) = 1
    /\ \A i \in 1..2 : LoadHeldBefore[i].id # LoadGiven[1].id
    /\ tasks = LoadGiven

\* a command of that word was read in the loop and succeeded in this step
Did(word) ==
    /\ pc = "loop" /\ pc' = "loop"
    /\ last'.cmd # <<>> /\ last'.cmd[1] = word /\ last'.res.ok

\* C19: the store keeps the order of insertion. An add puts the new record
\* last; a delete keeps the order of the records that remain; an update or
\* a complete changes one record where it is; a list with no filter prints
\* the records in the order of the store.
C19_InsertionOrder ==
    [][/\ Did(W_add) =>
            (Len(tasks') = Len(tasks) + 1 /\ SubSeq(tasks', 1, Len(tasks)) = tasks)
       /\ Did(W_delete) =>
            \E pos \in 1..Len(tasks) : tasks' = VecRemove(tasks, pos)
       /\ (Did(W_update) \/ Did(W_complete)) =>
            /\ Len(tasks') = Len(tasks)
            /\ \E pos \in 1..Len(tasks) :
                /\ \A i \in 1..Len(tasks) : i # pos => tasks'[i] = tasks[i]
                /\ tasks'[pos].id = tasks[pos].id
                /\ tasks'[pos].created_at = tasks[pos].created_at
       /\ (Did(W_list) /\ Len(last'.cmd) = 1) =>
            (last'.ret = Some(tasks) /\ tasks' = tasks)
      ]_vars

\* C19 witness: a list printed two records, the one with the larger id
\* first, as it was in the store first.
C19_ListedOlderFirst ==
    /\ pc = "loop" /\ LastWas(W_list) /\ Len(last.cmd) = 1
    /\ Len(tasks) = 2 /\ tasks[1].id > tasks[2].id
    /\ last.ret = Some(tasks)

\* what a lookup of id in ts must return: a record of ts with that id, or
\* nothing when ts has none
FoundById(ret, ts, id) ==
    IF \E i \in 1..Len(ts) : ts[i].id = id
    THEN IsSome(ret) /\ Unwrap(ret).id = id
            /\ \E i \in 1..Len(ts) : ts[i] = Unwrap(ret)
    ELSE ret = None

\* C20: a lookup (get_task, get_task_mut, get_task_by_id,
\* get_task_by_id_mut) returns a record whose id is the requested id when
\* the store holds one and nothing when it holds none, and changes nothing
\* in the store.
C20_LookupById ==
    [][(pc' = "store" /\ last'.cmd[1] \in {"get_task", "get_task_by_id"}) =>
        /\ FoundById(last'.ret, tasks, last'.cmd[2])
        /\ tasks' = tasks /\ next_id' = next_id
      ]_vars

\* the kinds of TaskError a command handler returns
CommandErrors ==
    {"ValidationError", "ParseError", "NotFound", "InvalidPriority",
     "InvalidStatus"}

\* the step read a command line and its handler returned an error, or the
\* save after it failed
CommandFailed ==
    /\ pc = "loop"
    /\ last'.cmd # <<>>
    /\ \/ ~last'.res.ok /\ last'.res.err \in CommandErrors
       \/ last'.save = "failed"

\* C21: every error a command produces (a usage or validation error, an id
\* that does not parse, NotFound, an invalid priority or status, a save that
\* failed) is reported and the loop goes on to read the next command: the
\* step that produced it ends in the loop, never in the end of the process.
C21_ErrorsKeepLoop ==
    [][CommandFailed => pc' = "loop"]_vars

\* C21 witness: a save has failed and the program is in its loop, and so is
\* it after an error of a handler
C21_SaveFailedInLoop ==
    /\ pc = "loop"
    /\ last.save = "failed"
    /\ last.cmd # <<>>

\* the startup load has just failed (no command was read since)
StartupFailed ==
    /\ pc # "start"
    /\ last.cmd = <<>>
    /\ ~last.res.ok
    /\ last.res.err # "panic"

\* C22: a startup load that fails (the read is refused, a line is
\* malformed) leaves the program in its loop with an empty store whose
\* next_id is 1.
C22_FailedLoadStartsEmpty ==
    StartupFailed => (pc = "loop" /\ Count(Manager(tasks, next_id)) = 0 /\ next_id = 1)

\* C22 witness: the read of a file that exists was refused, the loop runs
C22_ReadRefused ==
    /\ StartupFailed
    /\ last.res.err = "IoError"
    /\ IsSome(file)
    /\ pc = "loop"

\* ts without its record at index pos
Without(ts, pos) == SubSeq(ts, 1, pos - 1) \o SubSeq(ts, pos + 1, Len(ts))

\* what remove(id) on ts must do: take out and return a record of ts with
\* that id, or report NotFound(id) and leave ts when it has none
RemovedById(res, ret, ts, after, id) ==
    IF \E i \in 1..Len(ts) : ts[i].id = id
    THEN /\ res.ok
         /\ IsSome(ret) /\ Unwrap(ret).id = id
         /\ \E i \in 1..Len(ts) : ts[i] = Unwrap(ret) /\ after = Without(ts, i)
    ELSE /\ ~res.ok /\ res.err = "NotFound" /\ res.val = id
         /\ after = ts

\* C23: the generic remove_task(id) finds the task by its id, removes and
\* returns that task when the store holds one, and returns NotFound(id) and
\* changes nothing when no task has that id.
C23_RemoveTaskById ==
    [][(pc' = "store" /\ last'.cmd[1] = "remove_task") =>
        RemovedById(last'.res, last'.ret, tasks, tasks', last'.cmd[2])
      ]_vars

\* the k-th "|"-separated field of a line
NthBar(line, k) ==
    LET bars == {i \in 1..Len(line) : line[i] = Bar}
    IN  IF k = 0 THEN 0
        ELSE IF k > Cardinality(bars) THEN Len(line) + 1
        ELSE CHOOSE i \in bars : Cardinality({j \in bars : j <= i}) = k
Field(line, k) == SubSeq(line, NthBar(line, k - 1) + 1, NthBar(line, k) - 1)

\* s is a priority word, a status word, in any letter case
IsPriorityText(s) ==
    \E w \in {T_low, T_medium, T_high, T_critical} : Spells(s, w)
IsStatusText(s) ==
    \E w \in {T_pending, T_progress, T_inprogress, T_completed, T_complete} :
        Spells(s, w)

\* C24: deserialize reports the first failing check in the order field
\* count (SerializationError), id (ParseError), priority (InvalidPriority
\* with the text of the field), status (InvalidStatus with the text of the
\* field), and a line that passes the four is decoded whatever its title,
\* description, category and created_at fields hold.
C24_FirstFailingCheck ==
    Parsed =>
        IF FieldCount(ParsedLine) # 7
        THEN ~ParsedBack.ok /\ ParsedBack.err = "SerializationError"
        ELSE IF ~IsU32Text(Field(ParsedLine, 1))
        THEN ~ParsedBack.ok /\ ParsedBack.err = "ParseError"
        ELSE IF ~IsPriorityText(Field(ParsedLine, 4))
        THEN /\ ~ParsedBack.ok /\ ParsedBack.err = "InvalidPriority"
             /\ ParsedBack.val = Field(ParsedLine, 4)
        ELSE IF ~IsStatusText(Field(ParsedLine, 5))
        THEN /\ ~ParsedBack.ok /\ ParsedBack.err = "InvalidStatus"
             /\ ParsedBack.val = Field(ParsedLine, 5)
        ELSE ParsedBack.ok

\* C24 witness: a line whose priority and status are both invalid, its id
\* good, was rejected for its priority.
C24_RejectedForPriority ==
    /\ Parsed /\ FieldCount(ParsedLine) = 7
    /\ IsU32Text(Field(ParsedLine, 1))
    /\ Field(ParsedLine, 4) = T_urgent
    /\ Field(ParsedLine, 5) = T_done
    /\ ~ParsedBack.ok /\ ParsedBack.err = "InvalidPriority"
    /\ ParsedBack.val = T_urgent

\* C27: the text to_string gives for a Priority parses back to that
\* Priority, and the text to_string gives for a Status parses back to that
\* Status.
C27_DisplayParsesBack ==
    /\ codec.phase = "priority" =>
        \A p \in Priorities :
            Unwrap(codec.text) = PriorityToString(p) => Unwrap(codec.back) = Ok(p)
    /\ codec.phase = "status" =>
        \A st \in Statuses :
            Unwrap(codec.text) = StatusToString(st) => Unwrap(codec.back) = Ok(st)

\* C27 witness: "IN_PROGRESS", the text of InProgress, was parsed to
\* InProgress.
C27_ParsedInProgress ==
    /\ codec.phase = "status"
    /\ Unwrap(codec.text) = StatusToString("InProgress")
    /\ Unwrap(codec.back) = Ok("InProgress")

\* the step read a command line and its handler returned an error
HandlerFailed ==
    /\ pc = "loop"
    /\ last'.cmd # <<>>
    /\ ~last'.res.ok /\ last'.res.err \in CommandErrors

\* C25: a command that fails (too few arguments, an id that does not parse,
\* an id the store does not hold, an invalid priority or status, an unknown
\* update field) leaves the collection and next_id as they were and does not
\* write the file.
C25_FailedCommandChangesNothing ==
    [][HandlerFailed =>
        /\ tasks' = tasks /\ next_id' = next_id
        /\ file' = file /\ last'.save = "none"
      ]_vars

\* C25 witness: an update of a record the store holds was refused for its
\* status text
C25_RefusedUpdate ==
    /\ pc = "loop" /\ LastWas(W_update)
    /\ ~last.res.ok /\ last.res.err = "InvalidStatus"
    /\ \E i \in 1..Len(tasks) : tasks[i].id = 1

\* the file holds a line that does not decode; the lines of a file as a set
Malformed == IsSome(file) /\ Failing # {}
LineSet(f) == {Lines(Unwrap(f))[k] : k \in 1..Len(Lines(Unwrap(f)))}

\* the step saved over a file holding a line that does not decode: the
\* startup load failed on it and no save has replaced it since
SavedOverMalformed == pc = "loop" /\ Malformed /\ last'.save = "ok"

\* C26 as stated: after a startup load that failed on a malformed line, the
\* first successful mutating command writes the file from the records in
\* memory, all made in this session, and no record the file held before is
\* in the file any more.
C26_OldRecordsGone ==
    [][SavedOverMalformed =>
        /\ file' = Some(SaveContent(tasks'))
        /\ Len(tasks') <= adds'
        /\ \A i \in NonBlank \ Failing : FileLines[i] \notin LineSet(file')
      ]_vars

\* C26 amended: the same, but a record the file held before is still in the
\* file where the session made a record that is written as the same line.
C26_OnlySessionRecords ==
    [][SavedOverMalformed =>
        /\ file' = Some(SaveContent(tasks'))
        /\ Len(tasks') <= adds'
        /\ \A i \in NonBlank \ Failing :
            FileLines[i] \in LineSet(file') =>
                \E k \in 1..Len(tasks') : Serialize(tasks'[k]) = FileLines[i]
      ]_vars

\* C26 witness: the first add of the session was saved over a file that
\* load() rejects; the file now holds the added record alone.
C26_SavedOverBad ==
    /\ pc = "loop" /\ LastWas(W_add)
    /\ last.save = "ok" /\ last.over = "bad"
    /\ adds = 1 /\ Len(tasks) = 1
    /\ file = Some(SaveContent(tasks))

\* C28: identifier arithmetic stays within unsigned 32 bits: next_id is at
\* least 1 in every reachable state, and no addition on it overflows, be it
\* max_id + 1 after the load of a record with id u32::MAX or next_id + 1 in
\* an add at next_id = u32::MAX (an overflow wraps next_id to 0, or ends the
\* process where the build checks it).
C28_NextIdInRange ==
    /\ next_id \in 1..U32Max
    /\ pc # "panicked"

\* C29: every run of the command loop over an input that ends terminates:
\* the process stops at a quit or exit line, and it stops at the end of the
\* input when there was none.
C29_Terminates == <>(pc \in {"done", "panicked"})

\* the step was a Remove of more than the inventory holds of that item
RemovedTooMany ==
    /\ pc = "inventory" /\ pc' = "inventory"
    /\ last'.cmd[1] = "Remove"
    /\ \E i \in 1..Len(inventory) :
        /\ inventory[i].name = last'.cmd[2]
        /\ inventory[i].quantity < last'.cmd[3]

\* C30: after any sequence of Add, Remove, Use and List actions from the
\* empty inventory every item held has a quantity of at least 1, and a
\* Remove of more than is available changes nothing.
C30_QuantitiesAtLeastOne ==
    [][/\ \A i \in 1..Len(inventory') : inventory'[i].quantity >= 1
       /\ RemovedTooMany => inventory' = inventory
      ]_vars

====
